---- MODULE Spec2Model ----
(***************************************************************************)
(* Model of tracktor's base.py: the ResponseHandler.handler decorator, the *)
(* Tracktor.track entry point and the two concrete trackers UpsTracktor    *)
(* and UspsTracktor.                                                       *)
(*                                                                         *)
(* One tracker instance (`self`) is shared by the caller threads.  A call  *)
(* of track is a sequence of steps, one per access to the instance state   *)
(* or to the network, so that calls of different threads can interleave.   *)
(*                                                                         *)
(* Representation of Python values                                         *)
(*   str   a sequence of characters (one-character TLA+ strings); markup   *)
(*         that is never inspected is kept as one multi-character token    *)
(*   list  a sequence of items                                             *)
(*   dict  a sequence of <<key, value>> pairs in insertion order           *)
(*   an object's attributes: a function from attribute name to value       *)
(***************************************************************************)
EXTENDS Integers, Sequences, FiniteSets, TLC

VARIABLES
    self,        \* attributes of the tracker instance (__dict__)
    carrier,     \* "UPS" | "USPS": the class of the instance
    serialized,  \* TRUE: the callers run their calls one after another
    workload,    \* the tracking_numbers lists the callers pass to track
    pc,          \* per thread: position inside track
    arg,         \* per thread: tracking_numbers argument of the current call
    payload,     \* per thread: locally built payload (str(body) / xml string)
    sent,        \* per thread: the HTTP request issued by the current call
    reqs,        \* per thread: number of HTTP requests issued by the current call
    resp,        \* per thread: response object received from the network
    exc,         \* per thread: exception raised inside the try block
    ret,         \* per thread: value returned by track
    logd,        \* per thread: warning lines emitted by the current call
    logs,        \* total number of warning lines emitted
    failed,      \* total number of calls that returned None
    probe,       \* observer: <<input>> whose first request is remembered
    probeSent,   \* observer: <<request>> first issued for the probed input
    probeGap     \* observer: a call with another input came after that request

vars == <<self, carrier, serialized, workload, pc, arg, payload, sent, reqs, resp, exc,
          ret, logd, logs, failed, probe, probeSent, probeGap>>

----------------------------------------------------------------------------
(* Bounds *)

MaxLen == 2          \* longest tracking_numbers list passed to track
MaxFailed == 2       \* failed calls after which no further call is started

\* The caller threads sharing the instance.
Threads == {"t1", "t2"}

----------------------------------------------------------------------------
(* Sample inputs *)

\* An element of tracking_numbers that is not a str (an int, None, ...).
NotAString == <<"#int">>

\* Tracking-number strings; the second needs XML escaping.
TrackingStrings == { <<"1", "Z">>, <<"9", "&", "\"">> }

Elements == TrackingStrings \cup {NotAString}

RECURSIVE SeqsUpTo(_, _)
SeqsUpTo(S, n) ==
    IF n = 0 THEN { <<>> }
    ELSE LET shorter == SeqsUpTo(S, n - 1)
         IN  shorter \cup { Append(s, x) : s \in {q \in shorter : Len(q) = n - 1}, x \in S }

Inputs == SeqsUpTo(Elements, MaxLen)

\* Two different lists, passed by callers that run concurrently.
ConcurrentInputs == { << <<"1", "Z">> >>, << <<"9", "&", "\"">>, <<"1", "Z">> >> }

UserIds == { <<"1", "2", "3", "U">>, <<"A", "&", "B">> }

\* The None object, and the response objects the carrier may answer with.
\* id is the object's identity.
PyNone == [id |-> 0, status |-> 0]
Responses == { [id |-> 1, status |-> 200], [id |-> 2, status |-> 200],
               [id |-> 3, status |-> 404], [id |-> 4, status |-> 500] }

NoRequest == [method |-> "", url |-> "", data |-> <<>>, headers |-> <<>>, params |-> <<>>]

----------------------------------------------------------------------------
(* dict operations *)

HasKey(d, k) == \E i \in 1..Len(d) : d[i][1] = k

DictGet(d, k) == d[CHOOSE i \in 1..Len(d) : d[i][1] = k][2]

\* d[k] = v: an existing key keeps its position, a new key goes last.
DictSet(d, k, v) ==
    IF HasKey(d, k)
    THEN [i \in 1..Len(d) |-> IF d[i][1] = k THEN <<k, v>> ELSE d[i]]
    ELSE Append(d, <<k, v>>)

Keys(d) == [i \in 1..Len(d) |-> d[i][1]]

RECURSIVE Flatten(_)
Flatten(ss) == IF ss = <<>> THEN <<>> ELSE Head(ss) \o Flatten(Tail(ss))

RECURSIVE Join(_, _)
Join(ss, sep) ==
    IF ss = <<>> THEN <<>>
    ELSE IF Len(ss) = 1 THEN Head(ss)
    ELSE Head(ss) \o sep \o Join(Tail(ss), sep)

----------------------------------------------------------------------------
(* str() of the UPS body *)

\* repr of a list element: a str is quoted, anything else prints as itself.
ReprItem(x) == IF x = NotAString THEN <<"7">> ELSE <<"'">> \o x \o <<"'">>

ReprList(l) == <<"[">> \o Join([i \in 1..Len(l) |-> ReprItem(l[i])], <<", ">>) \o <<"]">>

\* Values of the body dict are tagged: [t |-> "str", v |-> chars] or
\* [t |-> "list", v |-> items].
PyStr(s) == [t |-> "str", v |-> s]
PyList(l) == [t |-> "list", v |-> l]

ReprValue(x) == IF x.t = "list" THEN ReprList(x.v) ELSE <<"'">> \o x.v \o <<"'">>

DictStr(d) ==
    <<"{">> \o
    Join([i \in 1..Len(d) |-> <<"'", d[i][1], "'", ": ">> \o ReprValue(d[i][2])], <<", ">>)
    \o <<"}">>

----------------------------------------------------------------------------
(* ElementTree serialisation *)

\* Variant: the escaping of element text, which leaves quotes alone.
EscapeCdata(c) ==
    CASE c = "&"  -> "&amp;"
      [] c = "<"  -> "&lt;"
      [] c = ">"  -> "&gt;"
      [] OTHER    -> c

\* ElementTree._escape_attrib
EscapeChar(c) ==
    CASE c = "&"  -> "&amp;"
      [] c = "<"  -> "&lt;"
      [] c = ">"  -> "&gt;"
      [] c = "\"" -> "&quot;"
      [] OTHER    -> c

EscapeAttrib(s) == [i \in 1..Len(s) |-> EscapeChar(s[i])]

XmlDecl == "<?xml version='1.0' encoding='UTF-8'?>"

TrackIdElement(tn) ==
    <<"<TrackID", " ID=", "\"">> \o EscapeAttrib(tn) \o <<"\"", ">", "</TrackID>">>

\* The TypeError of ElementTree's serializer on a non-str attribute value.
CanSerialize(tns) == \A i \in 1..Len(tns) : tns[i] # NotAString

\* Variant: the TrackID elements come out in reverse order.
BuildXmlReversed(obj) ==
    LET n == Len(obj.tracking_numbers)
    IN  <<XmlDecl, "<TrackRequest", " USERID=", "\"">> \o EscapeAttrib(obj.user_id) \o <<"\"", ">">>
        \o Flatten([i \in 1..n |-> TrackIdElement(obj.tracking_numbers[n + 1 - i])])
        \o <<"</TrackRequest>">>

\* UspsTracktor._build_xml: reads user_id and tracking_numbers of the instance.
BuildXml(obj) ==
    <<XmlDecl, "<TrackRequest", " USERID=", "\"">> \o EscapeAttrib(obj.user_id) \o <<"\"", ">">>
    \o Flatten([i \in 1..Len(obj.tracking_numbers) |-> TrackIdElement(obj.tracking_numbers[i])])
    \o <<"</TrackRequest>">>

(* What an XML parser reads back from the serialised document. *)

UnescapeToken(c) ==
    CASE c = "&amp;"  -> "&"
      [] c = "&lt;"   -> "<"
      [] c = "&gt;"   -> ">"
      [] c = "&quot;" -> "\""
      [] OTHER        -> c

Malformed == [ok |-> FALSE, userid |-> <<>>, ids |-> <<>>]

\* An attribute value runs up to the next quote; a bare & or < is an error.
RECURSIVE ReadAttr(_, _, _)
ReadAttr(doc, i, acc) ==
    IF i > Len(doc) THEN [ok |-> FALSE, val |-> acc, next |-> i]
    ELSE IF doc[i] = "\"" THEN [ok |-> TRUE, val |-> acc, next |-> i + 1]
    ELSE IF doc[i] \in {"&", "<"} THEN [ok |-> FALSE, val |-> acc, next |-> i]
    ELSE ReadAttr(doc, i + 1, Append(acc, UnescapeToken(doc[i])))

RECURSIVE ParseChildren(_, _, _, _)
ParseChildren(doc, i, userid, acc) ==
    IF i > Len(doc) THEN Malformed
    ELSE IF doc[i] = "</TrackRequest>"
         THEN IF i = Len(doc) THEN [ok |-> TRUE, userid |-> userid, ids |-> acc]
              ELSE Malformed
    ELSE IF i + 2 <= Len(doc) /\ doc[i] = "<TrackID" /\ doc[i + 1] = " ID=" /\ doc[i + 2] = "\""
         THEN LET a == ReadAttr(doc, i + 3, <<>>)
              IN  IF a.ok /\ a.next + 1 <= Len(doc) /\ doc[a.next] = ">"
                          /\ doc[a.next + 1] = "</TrackID>"
                  THEN ParseChildren(doc, a.next + 2, userid, Append(acc, a.val))
                  ELSE Malformed
    ELSE Malformed

ParseXml(doc) ==
    IF Len(doc) >= 4 /\ doc[1] = XmlDecl /\ doc[2] = "<TrackRequest"
                     /\ doc[3] = " USERID=" /\ doc[4] = "\""
    THEN LET u == ReadAttr(doc, 5, <<>>)
         IN  IF u.ok /\ u.next <= Len(doc) /\ doc[u.next] = ">"
             THEN ParseChildren(doc, u.next + 1, u.val, <<>>)
             ELSE Malformed
    ELSE Malformed

----------------------------------------------------------------------------
(* Construction *)

UpsUrl == "https://www.ups.com/track/api/Track/GetStatus?loc=en_US"
UspsUrl == "http://production.shippingapis.com/ShippingAPI.dll"

\* UpsTracktor.__init__
UpsInit ==
    [ url     |-> UpsUrl,
      body    |-> << <<"Locale", PyStr(<<"en_US">>)>>,
                     <<"Requester", PyStr(<<"wt/trackdetails">>)>> >>,
      headers |-> << <<"accept", "application/json, text/plain, */*">>,
                     <<"content-type", "application/json">> >> ]

\* UspsTracktor.__init__
UspsInit(user_id) ==
    [ user_id |-> user_id,
      url     |-> UspsUrl,
      params  |-> << <<"API", <<"TrackV2">> >> >> ]

\* Variant: an attribute that exists keeps its value.
SetAttrOnce(obj, name, value) ==
    [a \in DOMAIN obj \cup {name} |-> IF a \in DOMAIN obj THEN obj[a] ELSE value]

\* setattr(obj, name, value): creates the attribute when it is missing.
SetAttr(obj, name, value) ==
    [a \in DOMAIN obj \cup {name} |-> IF a = name THEN value ELSE obj[a]]

InitLocals ==
    /\ pc = [t \in Threads |-> "idle"]
    /\ arg = [t \in Threads |-> <<>>]
    /\ payload = [t \in Threads |-> <<>>]
    /\ sent = [t \in Threads |-> NoRequest]
    /\ reqs = [t \in Threads |-> 0]
    /\ resp = [t \in Threads |-> PyNone]
    /\ exc = [t \in Threads |-> "none"]
    /\ ret = [t \in Threads |-> PyNone]
    /\ logd = [t \in Threads |-> 0]
    /\ logs = 0
    /\ failed = 0

InitInstance ==
    \/ carrier = "UPS" /\ self = UpsInit
    \/ carrier = "USPS" /\ \E u \in UserIds : self = UspsInit(u)

\* The callers either run their calls one after another, or run them
\* concurrently with two different lists.
Init ==
    /\ InitInstance
    /\ InitLocals
    /\ \/ serialized = TRUE /\ workload = Inputs
       \/ serialized = FALSE /\ workload = ConcurrentInputs
    /\ probe = <<>>
    /\ probeSent = <<>>
    /\ probeGap = FALSE

\* Calls run one after another, and the request first issued for one input
\* is remembered.
InitProbe ==
    /\ InitInstance
    /\ InitLocals
    /\ serialized = TRUE
    /\ workload = Inputs
    /\ probe \in { <<i>> : i \in Inputs }
    /\ probeSent = <<>>
    /\ probeGap = FALSE

----------------------------------------------------------------------------
(* ResponseHandler.handler.wrapper *)

\* Variant: only server errors raise.
RaiseForStatusServerOnly(r) == r.status >= 500 /\ r.status < 600

\* requests.Response.raise_for_status raises HTTPError on 4xx and 5xx.
RaiseForStatus(r) == r.status >= 400 /\ r.status < 600

\* Variant: the response is returned after an HTTPError as well.
WrapperReturnLeak(e, r) == IF e \in {"none", "HTTPError"} THEN r ELSE PyNone

\* The value wrapper returns: the else branch returns the response, both
\* except branches fall off the end of the function.
WrapperReturn(e, r) == IF e = "none" THEN r ELSE PyNone

\* Variant: the HTTPError branch does not log.
WrapperLogLinesSilentHttp(e) ==
    CASE e = "none"      -> 0
      [] e = "HTTPError" -> 0
      [] OTHER           -> 1

\* Lines written by logging.warning: one in each except branch.
WrapperLogLines(e) ==
    CASE e = "none"      -> 0
      [] e = "HTTPError" -> 1
      [] OTHER           -> 1

\* The except clauses: HTTPError, then Exception.  Every exception raised
\* by the request code is an Exception.
Caught(e) == e = "HTTPError" \/ e \in {"ConnectionError", "TypeError"}

\* wrapper is left with exception e pending (or "none"): it returns, or the
\* exception goes on to the caller.
Leave(t, e) ==
    IF e = "none" \/ Caught(e)
    THEN /\ ret' = [ret EXCEPT ![t] = WrapperReturn(e, resp[t])]
         /\ logd' = [logd EXCEPT ![t] = @ + WrapperLogLines(e)]
         /\ logs' = logs + WrapperLogLines(e)
         /\ failed' = IF ret'[t] = PyNone THEN failed + 1 ELSE failed
         /\ pc' = [pc EXCEPT ![t] = "returned"]
    ELSE /\ pc' = [pc EXCEPT ![t] = "raised"]
         /\ failed' = failed + 1
         /\ UNCHANGED <<ret, logd, logs>>

\* The caller invokes track(tracking_numbers); wrapper enters the try block
\* and track calls self._make_request.
Call(t) ==
    /\ pc[t] = "idle"
    /\ failed < MaxFailed
    /\ serialized => \A o \in Threads : pc[o] = "idle"
    /\ \E tn \in workload :
          /\ arg' = [arg EXCEPT ![t] = tn]
          /\ probeGap' = (probeGap \/ (probeSent # <<>> /\ probe # <<tn>>))
    /\ pc' = [pc EXCEPT ![t] = "make_request"]
    /\ UNCHANGED <<self, carrier, serialized, workload, payload, sent, reqs, resp, exc,
                   ret, logd, logs, failed, probe, probeSent>>

\* response.raise_for_status(), then the else branch.
Check(t) ==
    /\ pc[t] = "check"
    /\ IF RaiseForStatus(resp[t])
       THEN /\ exc' = [exc EXCEPT ![t] = "HTTPError"]
            /\ pc' = [pc EXCEPT ![t] = "except"]
            /\ UNCHANGED <<ret, logd, logs, failed>>
       ELSE /\ Leave(t, "none")
            /\ UNCHANGED exc
    /\ UNCHANGED <<self, carrier, serialized, workload, arg, payload, sent, reqs, resp,
                   probe, probeSent, probeGap>>

\* except HTTPError / except Exception: log a warning, return None.
Except(t) ==
    /\ pc[t] = "except"
    /\ Leave(t, exc[t])
    /\ UNCHANGED <<self, carrier, serialized, workload, arg, payload, sent, reqs, resp,
                   exc, probe, probeSent, probeGap>>

\* The caller has taken the result; the frame of the call is gone.
Finish(t) ==
    /\ pc[t] \in {"returned", "raised"}
    /\ pc' = [pc EXCEPT ![t] = "idle"]
    /\ arg' = [arg EXCEPT ![t] = <<>>]
    /\ payload' = [payload EXCEPT ![t] = <<>>]
    /\ sent' = [sent EXCEPT ![t] = NoRequest]
    /\ reqs' = [reqs EXCEPT ![t] = 0]
    /\ resp' = [resp EXCEPT ![t] = PyNone]
    /\ exc' = [exc EXCEPT ![t] = "none"]
    /\ ret' = [ret EXCEPT ![t] = PyNone]
    /\ logd' = [logd EXCEPT ![t] = 0]
    /\ UNCHANGED <<self, carrier, serialized, workload, logs, failed, probe, probeSent, probeGap>>

----------------------------------------------------------------------------
(* The HTTP client *)

\* Variant: a request that raised is sent a second time.
TransportRetry(t, request) ==
    /\ sent' = [sent EXCEPT ![t] = request]
    /\ probeSent' = IF probe = <<arg[t]>> /\ probeSent = <<>>
                    THEN <<request>> ELSE probeSent
    /\ \/ \E r \in Responses :
            /\ resp' = [resp EXCEPT ![t] = r]
            /\ reqs' = [reqs EXCEPT ![t] = @ + 1]
            /\ pc' = [pc EXCEPT ![t] = "check"]
            /\ UNCHANGED exc
       \/ /\ exc' = [exc EXCEPT ![t] = "ConnectionError"]
          /\ reqs' = [reqs EXCEPT ![t] = @ + 2]
          /\ pc' = [pc EXCEPT ![t] = "except"]
          /\ UNCHANGED resp

\* requests.post / requests.get: the request goes out once; the carrier
\* answers with some response, or the transport raises.
Transport(t, request) ==
    /\ sent' = [sent EXCEPT ![t] = request]
    /\ reqs' = [reqs EXCEPT ![t] = @ + 1]
    /\ probeSent' = IF probe = <<arg[t]>> /\ probeSent = <<>>
                    THEN <<request>> ELSE probeSent
    /\ \/ \E r \in Responses :
            /\ resp' = [resp EXCEPT ![t] = r]
            /\ pc' = [pc EXCEPT ![t] = "check"]
            /\ UNCHANGED exc
       \/ /\ exc' = [exc EXCEPT ![t] = "ConnectionError"]
          /\ pc' = [pc EXCEPT ![t] = "except"]
          /\ UNCHANGED resp

----------------------------------------------------------------------------
(* UpsTracktor._make_request *)

\* Variant: setdefault, the field stays at the first call's value.
BodyUpdateKeepFirst(body, tracking_numbers) ==
    IF HasKey(body, "TrackingNumber") THEN body
    ELSE DictSet(body, "TrackingNumber", PyList(tracking_numbers))

\* Variant: the list is extended by the new numbers.
BodyUpdateAppend(body, tracking_numbers) ==
    IF HasKey(body, "TrackingNumber")
    THEN DictSet(body, "TrackingNumber",
                 PyList(DictGet(body, "TrackingNumber").v \o tracking_numbers))
    ELSE DictSet(body, "TrackingNumber", PyList(tracking_numbers))

\* Variant: self.body is assigned a new dict instead of being updated.
BodyUpdateReplace(body, tracking_numbers) ==
    << <<"TrackingNumber", PyList(tracking_numbers)>> >>

\* self.body.update(dict(TrackingNumber=tracking_numbers))
BodyUpdate(body, tracking_numbers) ==
    DictSet(body, "TrackingNumber", PyList(tracking_numbers))

UpsUpdate(t) ==
    /\ carrier = "UPS"
    /\ pc[t] = "make_request"
    /\ self' = [self EXCEPT !.body = BodyUpdate(self.body, arg[t])]
    /\ pc' = [pc EXCEPT ![t] = "str"]
    /\ UNCHANGED <<carrier, serialized, workload, arg, payload, sent, reqs, resp, exc,
                   ret, logd, logs, failed, probe, probeSent, probeGap>>

\* str(self.body), the data argument of requests.post
UpsStr(t) ==
    /\ carrier = "UPS"
    /\ pc[t] = "str"
    /\ payload' = [payload EXCEPT ![t] = DictStr(self.body)]
    /\ pc' = [pc EXCEPT ![t] = "send"]
    /\ UNCHANGED <<self, carrier, serialized, workload, arg, sent, reqs, resp, exc,
                   ret, logd, logs, failed, probe, probeSent, probeGap>>

\* requests.post(url=self.url, data=..., headers=self.headers)
UpsPost(t) ==
    /\ carrier = "UPS"
    /\ pc[t] = "send"
    /\ Transport(t, [method |-> "POST", url |-> self.url, data |-> payload[t],
                     headers |-> self.headers, params |-> <<>>])
    /\ UNCHANGED <<self, carrier, serialized, workload, arg, payload, ret, logd, logs, failed, probe, probeGap>>

----------------------------------------------------------------------------
(* UspsTracktor._make_request *)

\* self.tracking_numbers = tracking_numbers
UspsStore(t) ==
    /\ carrier = "USPS"
    /\ pc[t] = "make_request"
    /\ self' = SetAttr(self, "tracking_numbers", arg[t])
    /\ pc' = [pc EXCEPT ![t] = "build"]
    /\ UNCHANGED <<carrier, serialized, workload, arg, payload, sent, reqs, resp, exc,
                   ret, logd, logs, failed, probe, probeSent, probeGap>>

\* self._build_xml(): the serializer raises TypeError on a non-str value.
UspsBuild(t) ==
    /\ carrier = "USPS"
    /\ pc[t] = "build"
    /\ IF CanSerialize(self.tracking_numbers)
       THEN /\ payload' = [payload EXCEPT ![t] = BuildXml(self)]
            /\ pc' = [pc EXCEPT ![t] = "assign"]
            /\ UNCHANGED exc
       ELSE /\ exc' = [exc EXCEPT ![t] = "TypeError"]
            /\ pc' = [pc EXCEPT ![t] = "except"]
            /\ UNCHANGED payload
    /\ UNCHANGED <<self, carrier, serialized, workload, arg, sent, reqs, resp,
                   ret, logd, logs, failed, probe, probeSent, probeGap>>

\* self.params['XML'] = <the xml string>
UspsAssign(t) ==
    /\ carrier = "USPS"
    /\ pc[t] = "assign"
    /\ self' = [self EXCEPT !.params = DictSet(self.params, "XML", payload[t])]
    /\ pc' = [pc EXCEPT ![t] = "send"]
    /\ UNCHANGED <<carrier, serialized, workload, arg, payload, sent, reqs, resp, exc,
                   ret, logd, logs, failed, probe, probeSent, probeGap>>

\* requests.get(url=self.url, params=self.params)
UspsGet(t) ==
    /\ carrier = "USPS"
    /\ pc[t] = "send"
    /\ Transport(t, [method |-> "GET", url |-> self.url, data |-> <<>>,
                     headers |-> <<>>, params |-> self.params])
    /\ UNCHANGED <<self, carrier, serialized, workload, arg, payload, ret, logd, logs, failed, probe, probeGap>>

----------------------------------------------------------------------------

Next ==
    \E t \in Threads :
        \/ Call(t)
        \/ UpsUpdate(t)
        \/ UpsStr(t)
        \/ UpsPost(t)
        \/ UspsStore(t)
        \/ UspsBuild(t)
        \/ UspsAssign(t)
        \/ UspsGet(t)
        \/ Check(t)
        \/ Except(t)
        \/ Finish(t)

Spec == Init /\ [][Next]_vars

SpecProbe == InitProbe /\ [][Next]_vars

----------------------------------------------------------------------------
(* Properties *)

Done(t) == pc[t] \in {"returned", "raised"}

\* C1: a call in which _make_request raised, or the response's status check
\* raised HTTPError, returns None to the caller and raises nothing; the
\* failure kinds are not told apart.
C1_FailuresAbsorbed ==
    \A t \in Threads :
        (Done(t) /\ exc[t] # "none") => (pc[t] = "returned" /\ ret[t] = PyNone)

C1_Witness ==
    \E t \in Threads : pc[t] = "returned" /\ exc[t] = "ConnectionError" /\ ret[t] = PyNone

\* C2: a call whose response passes the status check returns that very
\* response object; no returned response has a 4xx/5xx status.
C2_PassThrough ==
    \A t \in Threads :
        /\ (Done(t) /\ exc[t] = "none") =>
               (pc[t] = "returned" /\ resp[t] \in Responses /\ ret[t] = resp[t])
        /\ (pc[t] = "returned" /\ ret[t] # PyNone) =>
               (ret[t] = resp[t] /\ ret[t].status \notin 400..599)

C2_Witness ==
    \E t \in Threads : pc[t] = "returned" /\ ret[t] = [id |-> 2, status |-> 200]

\* C3 as stated: every call that has returned issued exactly one request.
C3_ExactlyOneRequest ==
    \A t \in Threads : Done(t) => reqs[t] = 1

\* C3 as amended: a call issues at most one request and never retries; it
\* issues none exactly when building the payload raised before the request
\* could be sent.
C3_AtMostOneRequest ==
    \A t \in Threads :
        /\ reqs[t] <= 1
        /\ Done(t) => (reqs[t] = 0 <=> exc[t] = "TypeError")
        /\ (Done(t) /\ exc[t] \in {"none", "HTTPError", "ConnectionError"}) => reqs[t] = 1

C3_Witness ==
    \E t \in Threads :
        pc[t] = "returned" /\ reqs[t] = 0 /\ exc[t] = "TypeError" /\ ret[t] = PyNone

\* C4: a failed call writes exactly one warning line, a successful call
\* none; the lines written so far are as many as the calls that failed.
C4_OneLogPerFailure ==
    /\ logs = failed
    /\ \A t \in Threads :
          /\ pc[t] = "returned" => logd[t] = (IF ret[t] = PyNone THEN 1 ELSE 0)
          /\ ~Done(t) => logd[t] = 0

C4_Witness ==
    /\ logs = 2
    /\ \E t \in Threads : pc[t] = "returned" /\ exc[t] = "HTTPError" /\ logd[t] = 1

\* The body of a freshly constructed UpsTracktor with TrackingNumber set.
UpsBodyFor(tracking_numbers) ==
    << <<"Locale", PyStr(<<"en_US">>)>>,
       <<"Requester", PyStr(<<"wt/trackdetails">>)>>,
       <<"TrackingNumber", PyList(tracking_numbers)>> >>

\* C5: with calls made one after another on a UpsTracktor, each request is
\* a POST whose body has exactly Locale, Requester and TrackingNumber, the
\* last being the list of the current call, whatever the earlier calls were.
C5_UpsBody ==
    \A t \in Threads :
        (serialized /\ carrier = "UPS") =>
            /\ pc[t] \in {"str", "send", "check", "except", "returned"} =>
                  /\ Keys(self.body) = <<"Locale", "Requester", "TrackingNumber">>
                  /\ DictGet(self.body, "TrackingNumber") = PyList(arg[t])
            /\ pc[t] \in {"check", "except", "returned"} =>
                  /\ reqs[t] = 1
                  /\ sent[t].method = "POST"
                  /\ sent[t].data = DictStr(UpsBodyFor(arg[t]))

\* a second or later call, with a two-element list, has sent its request
C5_Witness ==
    \E t \in Threads :
        /\ serialized /\ carrier = "UPS" /\ failed >= 1
        /\ pc[t] = "check" /\ reqs[t] = 1
        /\ arg[t] = << <<"9", "&", "\"">>, <<"1", "Z">> >>

\* C6: with calls made one after another on a UspsTracktor, the XML query
\* parameter parses as one TrackRequest whose USERID is the instance's user
\* id, with one TrackID per element of the current call's list, the IDs
\* being the elements in order; the empty list still sends its GET.
C6_UspsXml ==
    \A t \in Threads :
        (serialized /\ carrier = "USPS") =>
            /\ reqs[t] >= 1 =>
                  /\ sent[t].method = "GET"
                  /\ Keys(sent[t].params) = <<"API", "XML">>
                  /\ ParseXml(DictGet(sent[t].params, "XML")) =
                         [ok |-> TRUE, userid |-> self.user_id, ids |-> arg[t]]
            /\ (pc[t] \in {"check", "except", "returned"} /\ CanSerialize(arg[t])) =>
                  reqs[t] = 1

\* a later call with a list whose first element needs escaping
C6_Witness ==
    \E t \in Threads :
        /\ serialized /\ carrier = "USPS" /\ failed >= 1
        /\ reqs[t] = 1
        /\ arg[t] = << <<"9", "&", "\"">>, <<"1", "Z">> >>
        /\ self.user_id = <<"A", "&", "B">>

C6_WitnessEmpty ==
    \E t \in Threads :
        serialized /\ carrier = "USPS" /\ reqs[t] = 1 /\ arg[t] = <<>> /\ failed >= 1

\* C7: with calls made one after another, a request issued for an input
\* equals the request first issued for that same input (method, url, body
\* string, headers, query parameters), whatever calls came in between.
C7_SamePayload ==
    \A t \in Threads :
        (reqs[t] >= 1 /\ probe = <<arg[t]>>) =>
            (probeSent # <<>> /\ sent[t] = probeSent[1])

\* the probed input is sent again after a call with another input
C7_Witness ==
    \E t \in Threads :
        /\ probeGap /\ reqs[t] = 1 /\ probe = <<arg[t]>> /\ arg[t] # <<>>
        /\ pc[t] = "returned"

\* The attributes a tracker is constructed with, plus tracking_numbers.
KnownAttrs ==
    IF carrier = "UPS" THEN {"url", "body", "headers"}
    ELSE {"user_id", "url", "params", "tracking_numbers"}

\* C8 as stated: once track has returned, no field of the tracker holds
\* the call's list or a payload built from it, nor the response.
C8_NothingRetained ==
    \A t \in Threads :
        pc[t] = "returned" =>
            /\ carrier = "UPS" => ~HasKey(self.body, "TrackingNumber")
            /\ carrier = "USPS" =>
                  ("tracking_numbers" \notin DOMAIN self /\ ~HasKey(self.params, "XML"))
            /\ DOMAIN self \subseteq KnownAttrs

\* C8 as amended: with calls made one after another, once track has
\* returned the tracker still holds the call's list (UPS body
\* TrackingNumber, USPS tracking_numbers) and, when a USPS request was
\* sent, the XML built from it in params; it has no attribute that holds
\* the response.
C8_RetainedUntilNextCall ==
    /\ DOMAIN self \subseteq KnownAttrs
    /\ \A t \in Threads :
          (serialized /\ pc[t] = "returned") =>
              /\ carrier = "UPS" =>
                    DictGet(self.body, "TrackingNumber") = PyList(arg[t])
              /\ carrier = "USPS" =>
                    /\ self.tracking_numbers = arg[t]
                    /\ reqs[t] = 1 =>
                          DictGet(self.params, "XML") = DictGet(sent[t].params, "XML")

\* a later USPS call has returned its response and left its list behind
C8_Witness ==
    \E t \in Threads :
        /\ serialized /\ carrier = "USPS" /\ failed >= 1
        /\ pc[t] = "returned" /\ ret[t] # PyNone
        /\ self.tracking_numbers = << <<"1", "Z">> >>

\* The tracking numbers a request carries.
Carried(request) ==
    IF request.method = "GET"
    THEN ParseXml(DictGet(request.params, "XML")).ids
    ELSE IF \E tn \in Inputs : request.data = DictStr(UpsBodyFor(tn))
         THEN CHOOSE tn \in Inputs : request.data = DictStr(UpsBodyFor(tn))
         ELSE << <<"?">> >>

\* C9: when the calls are made one after another, every request carries
\* the tracking numbers of the call that sent it (concurrent calls can
\* send each other's numbers: C9_Witness).
C9_SerialCallsSendOwnNumbers ==
    \A t \in Threads :
        (serialized /\ reqs[t] >= 1) => Carried(sent[t]) = arg[t]

\* two concurrent USPS calls: one has sent the other's numbers
C9_Witness ==
    \E t \in Threads : \E o \in Threads \ {t} :
        /\ ~serialized /\ carrier = "USPS"
        /\ reqs[t] = 1 /\ pc[o] \notin {"idle", "make_request"}
        /\ arg[t] # arg[o]
        /\ Carried(sent[t]) = arg[o]

C9_WitnessUps ==
    \E t \in Threads : \E o \in Threads \ {t} :
        /\ ~serialized /\ carrier = "UPS"
        /\ reqs[t] = 1 /\ pc[o] \notin {"idle", "make_request"}
        /\ arg[t] # arg[o]
        /\ Carried(sent[t]) = arg[o]

\* dict d without key k
Without(d, k) == SelectSeq(d, LAMBDA kv : kv[1] # k)

\* Everything of the instance but the per-call fields.
FixedPart(obj) ==
    [a \in DOMAIN obj \ {"tracking_numbers"} |->
        CASE a = "body"   -> Without(obj.body, "TrackingNumber")
          [] a = "params" -> Without(obj.params, "XML")
          [] OTHER        -> obj[a]]

\* C10: no step of any call changes the url, the headers, the body fields
\* Locale and Requester, the user_id or the API parameter, nor adds or
\* removes an attribute other than tracking_numbers.
C10_ConfigurationFixed ==
    [][FixedPart(self') = FixedPart(self)]_vars

\* after a failed call, a UPS call has returned a response and the body
\* carries its list
C10_Witness ==
    \E t \in Threads :
        /\ carrier = "UPS" /\ failed >= 1
        /\ pc[t] = "returned" /\ ret[t] # PyNone
        /\ self # UpsInit
        /\ FixedPart(self) = FixedPart(UpsInit)

====
